---- MODULE Spec2Model ----
(***************************************************************************)
(* A model of the infectious Reed-Solomon codec over GF(2^8): the field    *)
(* tables and arithmetic, GFPoly, GFMat, the FEC instance with Encode,     *)
(* EncodeSingle, Rebuild, Correct (Berlekamp-Welch), DecodeTo and Decode,  *)
(* and a caller that constructs an instance, encodes a buffer, keeps some  *)
(* of the emitted shares, damages or forges them, and decodes.             *)
(*                                                                         *)
(* Byte vectors (std::vector<uint8_t>, share data, row-major matrices) are *)
(* sequences; the element the source writes v[i] is At(v, i).              *)
(***************************************************************************)
EXTENDS Integers, Sequences, FiniteSets, TLC

(***************************************************************************)
(* Bounds of the model.                                                    *)
(***************************************************************************)
\* largest total number of shares n of an instance
MaxN == 4
\* largest input length handed to Encode
MaxLen == 4
\* largest number of share bytes the caller damages before decoding
MaxErrs == 2
\* largest block size (bytes per share) of an encoded input
MaxBlock == 2
\* largest input whose shares the caller damages
MaxDamagedLen == 2
\* largest n of an instance whose shares get up to MaxFrameErrs damaged bytes
MaxFrameN == 3
\* largest number of damaged share bytes of such an instance
MaxFrameErrs == 3
\* largest number of coefficients of a polynomial that is divided
MaxPolyLen == 3
\* largest k of an inverted Vandermonde matrix built on its own
MaxVdm == 8
\* number of threads that call into one instance
MaxThreads == 2
\* largest n of an instance that threads share
MaxThreadN == 3
\* largest block size of the inputs the threads encode
MaxThreadBlock == 1

\* byte values the caller's input is filled with
InputBytes == {0, 1}
\* byte values a damaged share byte is overwritten with
NoiseBytes == {1, 8}
\* the coefficients of the polynomials that are divided
PolyBytes == {0, 1, 2, 3}
\* what the memory before gf_exp may hold: a byte, or -1 for no readable memory
Stray == {-1, 0, 1, 255}
\* byte values the caller's output buffer holds before a call
BufferBytes == {7}

(***************************************************************************)
(* The state: one FEC instance and its caller.                             *)
(***************************************************************************)
VARIABLES
    k,            \* FEC::k
    n,            \* FEC::n
    enc_matrix,   \* FEC::enc_matrix, n*k bytes
    vand_matrix,  \* FEC::vand_matrix, k*n bytes
    input,        \* the caller's input bytes
    emitted,      \* the calls Encode made to its output callback, in order
    shares,       \* the caller's share collection, in the caller's order
    given,        \* the share collection as it was handed to the first call
    rebuilt,      \* the calls made to the caller's output callback, in order
    arg,          \* the num handed to EncodeSingle
    outbuf0,      \* the caller's output buffer before EncodeSingle or Decode
    outbuf,       \* the caller's output buffer
    returned,     \* what Decode returned
    calls,        \* the operations called on the shares so far
    result,       \* "" or the error the last operation raised
    pc,           \* where the caller is
    operands,     \* the arguments of the function applied on its own
    value,        \* what that function returned
    thread,       \* the calls in progress on the shared instance, one per thread
    scratch,      \* the scratch buffers of the calls in progress
    stray         \* what a read before the table gf_exp yields: a byte, or -1 for a fault

\* what the single caller of the instance leaves alone
aside == <<operands, value, thread, scratch, stray>>

vars == <<k, n, enc_matrix, vand_matrix, input, emitted, shares, given, rebuilt,
          arg, outbuf0, outbuf, returned, calls, result, pc, operands, value,
          thread, scratch, stray>>

(***************************************************************************)
(* Vectors.                                                                *)
(***************************************************************************)
\* the vector of length len whose element i (from 0) is F(i)
MkVec(len, F(_)) == [i \in 1..len |-> F(i - 1)] \o <<>>

At(v, i) == v[i + 1]

\* F applied to the value v, computed once
With(v, F(_)) == LET x == v IN F(x)

Zeros(len) == MkVec(len, LAMBDA i : 0)

\* v[from .. from+len) as a vector
Slice(v, from, len) == SubSeq(v, from + 1, from + len)

Min(S) == CHOOSE x \in S : \A y \in S : x <= y

(***************************************************************************)
(* GF(2^8) tables: generator 2, modulus x^8+x^4+x^3+x^2+1.                 *)
(***************************************************************************)
\* bit w (a power of two) of a ^ b
xor_bit(a, b, w) == (((a \div w) + (b \div w)) % 2) * w

xor_nibble == MkVec(16, LAMBDA a : MkVec(16, LAMBDA b : xor_bit(a, b, 1) + xor_bit(a, b, 2) + xor_bit(a, b, 4) + xor_bit(a, b, 8)))

\* a ^ b on bytes
gf_add(a, b) ==
    16 * At(At(xor_nibble, a \div 16), b \div 16) + At(At(xor_nibble, a % 16), b % 16)

gf_exp == <<
      1,   2,   4,   8,  16,  32,  64, 128,  29,  58, 116, 232, 205, 135,  19,  38,
     76, 152,  45,  90, 180, 117, 234, 201, 143,   3,   6,  12,  24,  48,  96, 192,
    157,  39,  78, 156,  37,  74, 148,  53, 106, 212, 181, 119, 238, 193, 159,  35,
     70, 140,   5,  10,  20,  40,  80, 160,  93, 186, 105, 210, 185, 111, 222, 161,
     95, 190,  97, 194, 153,  47,  94, 188, 101, 202, 137,  15,  30,  60, 120, 240,
    253, 231, 211, 187, 107, 214, 177, 127, 254, 225, 223, 163,  91, 182, 113, 226,
    217, 175,  67, 134,  17,  34,  68, 136,  13,  26,  52, 104, 208, 189, 103, 206,
    129,  31,  62, 124, 248, 237, 199, 147,  59, 118, 236, 197, 151,  51, 102, 204,
    133,  23,  46,  92, 184, 109, 218, 169,  79, 158,  33,  66, 132,  21,  42,  84,
    168,  77, 154,  41,  82, 164,  85, 170,  73, 146,  57, 114, 228, 213, 183, 115,
    230, 209, 191,  99, 198, 145,  63, 126, 252, 229, 215, 179, 123, 246, 241, 255,
    227, 219, 171,  75, 150,  49,  98, 196, 149,  55, 110, 220, 165,  87, 174,  65,
    130,  25,  50, 100, 200, 141,   7,  14,  28,  56, 112, 224, 221, 167,  83, 166,
     81, 162,  89, 178, 121, 242, 249, 239, 195, 155,  43,  86, 172,  69, 138,   9,
     18,  36,  72, 144,  61, 122, 244, 245, 247, 243, 251, 235, 203, 139,  11,  22,
     44,  88, 176, 125, 250, 233, 207, 131,  27,  54, 108, 216, 173,  71, 142,   1,
      2,   4,   8,  16,  32,  64, 128,  29,  58, 116, 232, 205, 135,  19,  38,  76,
    152,  45,  90, 180, 117, 234, 201, 143,   3,   6,  12,  24,  48,  96, 192, 157,
     39,  78, 156,  37,  74, 148,  53, 106, 212, 181, 119, 238, 193, 159,  35,  70,
    140,   5,  10,  20,  40,  80, 160,  93, 186, 105, 210, 185, 111, 222, 161,  95,
    190,  97, 194, 153,  47,  94, 188, 101, 202, 137,  15,  30,  60, 120, 240, 253,
    231, 211, 187, 107, 214, 177, 127, 254, 225, 223, 163,  91, 182, 113, 226, 217,
    175,  67, 134,  17,  34,  68, 136,  13,  26,  52, 104, 208, 189, 103, 206, 129,
     31,  62, 124, 248, 237, 199, 147,  59, 118, 236, 197, 151,  51, 102, 204, 133,
     23,  46,  92, 184, 109, 218, 169,  79, 158,  33,  66, 132,  21,  42,  84, 168,
     77, 154,  41,  82, 164,  85, 170,  73, 146,  57, 114, 228, 213, 183, 115, 230,
    209, 191,  99, 198, 145,  63, 126, 252, 229, 215, 179, 123, 246, 241, 255, 227,
    219, 171,  75, 150,  49,  98, 196, 149,  55, 110, 220, 165,  87, 174,  65, 130,
     25,  50, 100, 200, 141,   7,  14,  28,  56, 112, 224, 221, 167,  83, 166,  81,
    162,  89, 178, 121, 242, 249, 239, 195, 155,  43,  86, 172,  69, 138,   9,  18,
     36,  72, 144,  61, 122, 244, 245, 247, 243, 251, 235, 203, 139,  11,  22,  44,
     88, 176, 125, 250, 233, 207, 131,  27,  54, 108, 216, 173,  71, 142 >>

gf_log == <<
    255,   0,   1,  25,   2,  50,  26, 198,   3, 223,  51, 238,  27, 104, 199,  75,
      4, 100, 224,  14,  52, 141, 239, 129,  28, 193, 105, 248, 200,   8,  76, 113,
      5, 138, 101,  47, 225,  36,  15,  33,  53, 147, 142, 218, 240,  18, 130,  69,
     29, 181, 194, 125, 106,  39, 249, 185, 201, 154,   9, 120,  77, 228, 114, 166,
      6, 191, 139,  98, 102, 221,  48, 253, 226, 152,  37, 179,  16, 145,  34, 136,
     54, 208, 148, 206, 143, 150, 219, 189, 241, 210,  19,  92, 131,  56,  70,  64,
     30,  66, 182, 163, 195,  72, 126, 110, 107,  58,  40,  84, 250, 133, 186,  61,
    202,  94, 155, 159,  10,  21, 121,  43,  78, 212, 229, 172, 115, 243, 167,  87,
      7, 112, 192, 247, 140, 128,  99,  13, 103,  74, 222, 237,  49, 197, 254,  24,
    227, 165, 153, 119,  38, 184, 180, 124,  17,  68, 146, 217,  35,  32, 137,  46,
     55,  63, 209,  91, 149, 188, 207, 205, 144, 135, 151, 178, 220, 252, 190,  97,
    242,  86, 211, 171,  20,  42,  93, 158, 132,  60,  57,  83,  71, 109,  65, 162,
     31,  45,  67, 216, 183, 123, 164, 118, 196,  23,  73, 236, 127,  12, 111, 246,
    108, 161,  59,  82,  41, 157,  85, 170, 251,  96, 134, 177, 187, 204,  62,  90,
    203,  89,  95, 176, 156, 169, 160,  81,  11, 245,  22, 235, 122, 117,  44, 215,
     79, 174, 213, 233, 230, 231, 173, 232, 116, 214, 244, 234, 168,  80,  88, 175 >>

gf_inverse == <<
      0,   1, 142, 244,  71, 167, 122, 186, 173, 157, 221, 152,  61, 170,  93, 150,
    216, 114, 192,  88, 224,  62,  76, 102, 144, 222,  85, 128, 160, 131,  75,  42,
    108, 237,  57,  81,  96,  86,  44, 138, 112, 208,  31,  74,  38, 139,  51, 110,
     72, 137, 111,  46, 164, 195,  64,  94,  80,  34, 207, 169, 171,  12,  21, 225,
     54,  95, 248, 213, 146,  78, 166,   4,  48, 136,  43,  30,  22, 103,  69, 147,
     56,  35, 104, 140, 129,  26,  37,  97,  19, 193, 203,  99, 151,  14,  55,  65,
     36,  87, 202,  91, 185, 196,  23,  77,  82, 141, 239, 179,  32, 236,  47,  50,
     40, 209,  17, 217, 233, 251, 218, 121, 219, 119,   6, 187, 132, 205, 254, 252,
     27,  84, 161,  29, 124, 204, 228, 176,  73,  49,  39,  45,  83, 105,   2, 245,
     24, 223,  68,  79, 155, 188,  15,  92,  11, 220, 189, 148, 172,   9, 199, 162,
     28, 130, 159, 198,  52, 194,  70,   5, 206,  59,  13,  60, 156,   8, 190, 183,
    135, 229, 238, 107, 235, 242, 191, 175, 197, 100,   7, 123, 149, 154, 174, 182,
     18,  89, 165,  53, 101, 184, 163, 158, 210, 247,  98,  90, 133, 125, 168,  58,
     41, 113, 200, 246, 249,  67, 215, 214,  16, 115, 118, 120, 153,  10,  25, 145,
     20,  63, 230, 240, 134, 177, 226, 241, 250, 116, 243, 180, 109,  33, 178, 106,
    227, 231, 181, 234,   3, 143, 211, 201,  66, 212, 232, 117, 127, 255, 126, 253 >>

\* gf_mul_table[i][j] as the table generator fills it
gf_mul_table ==
    MkVec(256, LAMBDA i : MkVec(256, LAMBDA j :
        IF i = 0 \/ j = 0 THEN 0
        ELSE At(gf_exp, (At(gf_log, i) + At(gf_log, j)) % 255)))

(***************************************************************************)
(* The loops of the source are recursive operators, declared here.         *)
(***************************************************************************)
RECURSIVE gf_pow(_, _)
RECURSIVE xor_all(_)
RECURSIVE div_loop(_, _, _)
RECURSIVE invert_forward(_, _, _)
RECURSIVE invert_backward(_, _, _)
RECURSIVE standardize_forward(_, _)
RECURSIVE standardize_backward(_, _)
RECURSIVE invert_columns(_, _, _)
RECURSIVE unscramble(_, _, _, _, _)
RECURSIVE vdm_c(_, _)
RECURSIVE vdm_row(_, _, _, _, _)
RECURSIVE addmul_all(_, _, _)
RECURSIVE encode_loop(_, _, _, _)
RECURSIVE rebuild_select_loop(_, _, _)
RECURSIVE rebuild_decode_loop(_, _, _, _)
RECURSIVE correct_bytes(_, _, _)
RECURSIVE correct_rows(_, _, _, _)
RECURSIVE decode_copy(_, _, _)

(***************************************************************************)
(* Field element operations.                                               *)
(***************************************************************************)
gf_mul(a, b) == At(At(gf_mul_table, a), b)

gf_pow(x, val) == IF val <= 0 THEN 1 ELSE gf_mul(x, gf_pow(x, val - 1))

\* a fallible result: err = "" and the value, or the error raised
Ok(v) == [err |-> "", val |-> v]
Fail(e) == [err |-> e, val |-> 0]

\* gf_exp[gf_log[a]-gf_log[b]]: the index is an int and is negative when
\* gf_log[a] < gf_log[b]; the read before the table is undefined, it yields
\* whatever byte lies there (stray) or it faults ("OutOfBounds")
gf_div(a, b) ==
    IF b = 0 THEN Fail("DivideByZero")
    ELSE IF a = 0 THEN Ok(0)
    ELSE With(At(gf_log, a) - At(gf_log, b), LAMBDA idx :
           IF idx >= 0 THEN Ok(At(gf_exp, idx))
           ELSE IF stray < 0 THEN Fail("OutOfBounds")
           ELSE Ok(stray))

top_of_range == 255

gf_inv(x) ==
    IF x = 0 THEN Fail("DivideByZero")
    ELSE Ok(At(gf_exp, top_of_range - At(gf_log, x)))

xor_all(v) == IF v = <<>> THEN 0 ELSE gf_add(Head(v), xor_all(Tail(v)))

gf_dot(a, b) == xor_all(MkVec(Len(a), LAMBDA i : gf_mul(At(a, i), At(b, i))))

\* a faulty addmul: the accumulation is left out
addmul_nothing(z, x, y) == z

\* z[i] ^= gf_mul_table[y][x[i]] for every i of z
addmul(z, x, y) == MkVec(Len(z), LAMBDA i : gf_add(At(z, i), gf_mul(y, At(x, i))))

(***************************************************************************)
(* GFPoly: coefficients, highest degree first, read from start_at on.      *)
(***************************************************************************)
GFPoly(values) == [values |-> values, start_at |-> 0]

poly_size(p) == Len(p.values) - p.start_at

poly_deg(p) == poly_size(p) - 1

\* operator[]: only used within bounds here
poly_at(p, idx) == At(p.values, idx + p.start_at)

poly_coefs(p) == Slice(p.values, p.start_at, poly_size(p))

poly_index(p, power) ==
    IF power < 0 THEN 0
    ELSE LET which == poly_deg(p) - power
         IN IF which < 0 THEN 0 ELSE poly_at(p, which)

poly_scale(p, factor) ==
    GFPoly(MkVec(poly_size(p), LAMBDA i : gf_mul(poly_at(p, i), factor)))

\* out.set(i, index(i) ^ b.index(i)) for every power i below the longer size
poly_add(p, b) ==
    LET len == IF poly_size(b) > poly_size(p) THEN poly_size(b) ELSE poly_size(p)
    IN GFPoly(MkVec(len, LAMBDA w :
           gf_add(poly_index(p, len - 1 - w), poly_index(b, len - 1 - w))))

poly_is_zero(p) == \A i \in 0..(poly_size(p) - 1) : poly_at(p, i) = 0

remove_leading_zeroes(p) ==
    LET nz == {i \in p.start_at..(Len(p.values) - 1) : At(p.values, i) # 0}
    IN [p EXCEPT !.start_at = IF nz = {} THEN Len(p.values) ELSE Min(nz)]

poly_shift(p, elements) == [p EXCEPT !.start_at = @ + elements]

\* the loop of div: b is stripped and non-empty, q the quotient so far
div_loop(p, b, q) ==
    IF poly_deg(b) > poly_deg(p) THEN [err |-> "", q |-> q, p |-> p]
    ELSE With(gf_div(poly_index(p, poly_deg(p)), poly_index(b, poly_deg(b))), LAMBDA coef :
         IF coef.err # "" THEN [err |-> coef.err, q |-> q, p |-> p]
         ELSE With(poly_scale(b, coef.val), LAMBDA scaled :
              With(poly_add(p, GFPoly(scaled.values \o Zeros(poly_deg(p) - poly_deg(scaled)))),
                   LAMBDA sum :
                IF poly_at(sum, 0) # 0 THEN [err |-> "AlgebraError", q |-> q, p |-> p]
                ELSE div_loop(poly_shift(sum, 1), b, Append(q, coef.val)))))

\* the trailing loop of div: while (p.size() > 1 && p[0] == 0) p.shift(1)
strip_remainder(p) ==
    LET keep == {i \in 0..(poly_size(p) - 1) : poly_at(p, i) # 0 \/ i = poly_size(p) - 1}
    IN IF keep = {} THEN p ELSE poly_shift(p, Min(keep))

\* p divided by b0: [err, q, r]
poly_div(p0, b0) ==
    LET b == remove_leading_zeroes(b0)
        p == remove_leading_zeroes(p0)
        zero == GFPoly(<<0>>)
    IN IF poly_size(b) = 0 THEN [err |-> "DivideByZero", q |-> zero, r |-> zero]
       ELSE IF poly_size(p) = 0 THEN [err |-> "", q |-> zero, r |-> zero]
       ELSE With(div_loop(p, b, <<>>), LAMBDA res :
              IF res.err # "" THEN [err |-> res.err, q |-> zero, r |-> zero]
              ELSE [err |-> "", q |-> GFPoly(res.q), r |-> strip_remainder(res.p)])

poly_eval(p, x) ==
    xor_all(MkVec(poly_size(p), LAMBDA i : gf_mul(poly_index(p, i), gf_pow(x, i))))

(***************************************************************************)
(* GFMat: r rows and c columns, row-major in d.                            *)
(***************************************************************************)
GFMat(i, j) == [d |-> Zeros(i * j), r |-> i, c |-> j]

mat_index(m, i, j) == m.c * i + j

mat_get(m, i, j) == At(m.d, mat_index(m, i, j))

mat_set(m, i, j, val) == [m EXCEPT !.d[mat_index(m, i, j) + 1] = val]

index_row(m, i) == Slice(m.d, mat_index(m, i, 0), m.c)

swap_row(m, i, j) ==
    [m EXCEPT !.d = MkVec(m.r * m.c, LAMBDA x :
        LET row == x \div m.c
            col == x % m.c
        IN IF row = i THEN mat_get(m, j, col)
           ELSE IF row = j THEN mat_get(m, i, col)
           ELSE At(m.d, x))]

scale_row(m, row, val) ==
    [m EXCEPT !.d = MkVec(m.r * m.c, LAMBDA x :
        IF x \div m.c = row THEN gf_mul(At(m.d, x), val) ELSE At(m.d, x))]

\* addmul_row(i, j, val[j]) for every row j of rows: row j ^= val[j] * row i.
\* No row of rows is i, so the calls touch disjoint rows and read row i unchanged.
addmul_rows(m, i, rows, val) ==
    [m EXCEPT !.d = MkVec(m.r * m.c, LAMBDA x :
        LET j == x \div m.c
            col == x % m.c
        IN IF j \in rows
           THEN gf_add(At(m.d, x), gf_mul(At(val, j), mat_get(m, i, col)))
           ELSE At(m.d, x))]

\* column i of m, one value per row
mat_column(m, i) == MkVec(m.r, LAMBDA j : mat_get(m, j, i))

\* the pivot search: the first row from i on with a non-zero in column i, or
\* -1 when there is none (p_val stays 0)
pivot_row(m, i) ==
    LET cand == {j \in i..(m.r - 1) : mat_get(m, j, i) # 0}
    IN IF cand = {} THEN -1 ELSE Min(cand)

\* the forward pass of invert_with from pivot i on, on the pair <<s, a>>
invert_forward(s, a, i) ==
    IF i >= s.r THEN <<s, a>>
    ELSE With(pivot_row(s, i), LAMBDA p_row :
         IF p_row = -1 THEN invert_forward(s, a, i + 1)
         ELSE With(IF p_row # i THEN swap_row(s, i, p_row) ELSE s, LAMBDA s1 :
              With(gf_inv(mat_get(s1, i, i)).val, LAMBDA inv :
              With(scale_row(s1, i, inv), LAMBDA s2 :
              With(mat_column(s2, i), LAMBDA leading :
                invert_forward(
                    addmul_rows(s2, i, (i + 1)..(s.r - 1), leading),
                    addmul_rows(scale_row(IF p_row # i THEN swap_row(a, i, p_row) ELSE a, i, inv),
                                i, (i + 1)..(s.r - 1), leading),
                    i + 1))))))

\* the backward pass of invert_with from row i down to 1
invert_backward(s, a, i) ==
    IF i <= 0 THEN <<s, a>>
    ELSE With(mat_column(s, i), LAMBDA trailing :
           invert_backward(addmul_rows(s, i, 0..(i - 1), trailing),
                           addmul_rows(a, i, 0..(i - 1), trailing), i - 1))

\* s.invert_with(a): <<s, a>> afterwards
invert_with(s, a) ==
    With(invert_forward(s, a, 0), LAMBDA fw : invert_backward(fw[1], fw[2], s.r - 1))

standardize_forward(s, i) ==
    IF i >= s.r THEN s
    ELSE With(pivot_row(s, i), LAMBDA p_row :
         IF p_row = -1 THEN standardize_forward(s, i + 1)
         ELSE With(IF p_row # i THEN swap_row(s, i, p_row) ELSE s, LAMBDA s1 :
              With(scale_row(s1, i, gf_inv(mat_get(s1, i, i)).val), LAMBDA s2 :
                standardize_forward(
                    addmul_rows(s2, i, (i + 1)..(s.r - 1), mat_column(s2, i)), i + 1))))

standardize_backward(s, i) ==
    IF i <= 0 THEN s
    ELSE standardize_backward(addmul_rows(s, i, 0..(i - 1), mat_column(s, i)), i - 1)

standardize(s) == standardize_backward(standardize_forward(s, 0), s.r - 1)

\* [P^T | I] of a standardized [I | P]
parity(m) ==
    LET rows == m.c - m.r
    IN [d |-> MkVec(rows * m.c, LAMBDA x :
                LET i == x \div m.c
                    j == x % m.c
                IN IF j < m.r THEN mat_get(m, j, i + m.r)
                   ELSE IF j = i + m.r THEN 1 ELSE 0),
        r |-> rows, c |-> m.c]

(***************************************************************************)
(* Matrix inversion and the inverted Vandermonde matrix (zfec).            *)
(***************************************************************************)
\* pivotSearcher::search: <<row, i>> of the pivot found, or <<-1, -1>>
pivot_search(col, matrix, k_, ipiv) ==
    IF ~At(ipiv, col) /\ At(matrix, col * k_ + col) # 0 THEN <<col, col>>
    ELSE LET cand == {x \in 0..(k_ * k_ - 1) :
                        /\ ~At(ipiv, x \div k_)
                        /\ ~At(ipiv, x % k_)
                        /\ At(matrix, x) # 0}
         IN IF cand = {} THEN <<-1, -1>> ELSE <<Min(cand) \div k_, Min(cand) % k_>>

\* one column of invertMatrix on st = [err, matrix, ipiv, indxr, indxc]
invert_column(st, col, k_) ==
    IF st.err # "" THEN st
    ELSE With(pivot_search(col, st.matrix, k_, st.ipiv), LAMBDA found :
      LET icol == found[1]
          irow == found[2]
      IN IF icol = -1 THEN [st EXCEPT !.err = "pivot not found"]
         ELSE With(MkVec(k_ * k_, LAMBDA x :
                     IF irow # icol /\ x \div k_ = irow
                     THEN At(st.matrix, icol * k_ + (x % k_))
                     ELSE IF irow # icol /\ x \div k_ = icol
                     THEN At(st.matrix, irow * k_ + (x % k_))
                     ELSE At(st.matrix, x)), LAMBDA swapped :
           LET c == At(swapped, icol * k_ + icol)
           IN IF c = 0 THEN [st EXCEPT !.err = "singular matrix"]
              \* the pivot row with pivot_row[icol] = 1, every entry times gf_inverse[c]
              ELSE With(IF c = 1 THEN Slice(swapped, icol * k_, k_)
                        ELSE With(At(gf_inverse, c), LAMBDA inv_c :
                               MkVec(k_, LAMBDA i :
                                 gf_mul(inv_c, IF i = icol THEN 1
                                               ELSE At(swapped, icol * k_ + i)))),
                        LAMBDA pivot_line :
                   With(\A i \in 0..(k_ - 1) : At(pivot_line, i) = (IF i = icol THEN 1 ELSE 0),
                        LAMBDA is_id_row :
                     [err |-> "",
                      matrix |-> MkVec(k_ * k_, LAMBDA x :
                         IF x \div k_ = icol THEN At(pivot_line, x % k_)
                         ELSE IF is_id_row THEN At(swapped, x)
                         ELSE gf_add(IF x % k_ = icol THEN 0 ELSE At(swapped, x),
                                     gf_mul(At(swapped, (x \div k_) * k_ + icol),
                                            At(pivot_line, x % k_)))),
                      ipiv |-> [st.ipiv EXCEPT ![irow + 1] = TRUE],
                      indxr |-> Append(st.indxr, irow),
                      indxc |-> Append(st.indxc, icol)]))))

invert_columns(st, col, k_) ==
    IF col >= k_ THEN st ELSE invert_columns(invert_column(st, col, k_), col + 1, k_)

\* the closing loop of invertMatrix: swap columns indxr[i] and indxc[i], i ascending
unscramble(matrix, indxr, indxc, i, k_) ==
    IF i >= k_ THEN matrix
    ELSE LET a == At(indxr, i)
             b == At(indxc, i)
         IN unscramble(
              MkVec(k_ * k_, LAMBDA x :
                IF a # b /\ x % k_ = a THEN At(matrix, (x \div k_) * k_ + b)
                ELSE IF a # b /\ x % k_ = b THEN At(matrix, (x \div k_) * k_ + a)
                ELSE At(matrix, x)),
              indxr, indxc, i + 1, k_)

\* invertMatrix(matrix, k_): [err, matrix]
invertMatrix(matrix, k_) ==
    With(invert_columns([err |-> "", matrix |-> matrix,
                         ipiv |-> MkVec(k_, LAMBDA i : FALSE),
                         indxr |-> <<>>, indxc |-> <<>>], 0, k_), LAMBDA st :
      IF st.err # "" THEN [err |-> st.err, matrix |-> st.matrix]
      ELSE [err |-> "", matrix |-> unscramble(st.matrix, st.indxr, st.indxc, 0, k_)])

\* the first loop of createInvertedVdm: c after the passes i = 1..upto
vdm_c(k_, upto) ==
    IF upto <= 0 THEN Zeros(k_)
    ELSE With(vdm_c(k_, upto - 1), LAMBDA c :
         With(At(gf_exp, upto), LAMBDA p_i :
           MkVec(k_, LAMBDA j :
             IF j = k_ - 1 THEN gf_add(At(c, j), p_i)
             ELSE IF j >= k_ - 1 - (upto - 1) THEN gf_add(At(c, j), gf_mul(p_i, At(c, j + 1)))
             ELSE At(c, j))))

\* the inner loop for one row, from i down to 0: [b, t], b given from i+1 up
vdm_row(c, p_row, b, t, i) ==
    IF i < 0 THEN [b |-> b, t |-> t]
    ELSE With(gf_add(At(c, i + 1), gf_mul(p_row, Head(b))), LAMBDA b_i :
           vdm_row(c, p_row, <<b_i>> \o b, gf_add(b_i, gf_mul(p_row, t)), i - 1))

\* a faulty createInvertedVdm: the rows are written as rows, vdm[row*k+col]
createInvertedVdm_rows(k_) ==
    IF k_ = 1 THEN <<1>>
    ELSE With(vdm_c(k_, k_ - 1), LAMBDA c :
         With(MkVec(k_, LAMBDA row :
                vdm_row(c, IF row # 0 THEN At(gf_exp, row) ELSE 0, <<1>>, 1, k_ - 2)),
              LAMBDA row_bt :
           MkVec(k_ * k_, LAMBDA x :
             gf_mul(At(gf_inverse, At(row_bt, x \div k_).t), At(At(row_bt, x \div k_).b, x % k_)))))

createInvertedVdm(k_) ==
    IF k_ = 1 THEN <<1>>
    ELSE With(vdm_c(k_, k_ - 1), LAMBDA c :
         With(MkVec(k_, LAMBDA row :
                vdm_row(c, IF row # 0 THEN At(gf_exp, row) ELSE 0, <<1>>, 1, k_ - 2)),
              LAMBDA row_bt :
           MkVec(k_ * k_, LAMBDA x :
             gf_mul(At(gf_inverse, At(row_bt, x % k_).t), At(At(row_bt, x % k_).b, x \div k_)))))

(***************************************************************************)
(* The FEC instance.                                                       *)
(***************************************************************************)
byte_max == 256

ValidParameters(k_, n_) ==
    ~(k_ <= 0 \/ n_ <= 0 \/ k_ > byte_max \/ n_ > byte_max \/ k_ > n_)

\* temp_matrix of the constructor: the inverted Vandermonde, then powers of 2
temp_matrix(k_, n_) ==
    With(createInvertedVdm(k_), LAMBDA vdm :
      MkVec(n_ * k_, LAMBDA i :
        IF i < k_ * k_ THEN At(vdm, i)
        ELSE At(gf_exp, ((i \div k_) * (i % k_)) % (byte_max - 1))))

new_enc_matrix(k_, n_) ==
    With(temp_matrix(k_, n_), LAMBDA temp :
      MkVec(n_ * k_, LAMBDA x :
        IF x < k_ * k_ THEN (IF x % (k_ + 1) = 0 THEN 1 ELSE 0)
        ELSE xor_all(MkVec(k_, LAMBDA i :
               gf_mul(At(temp, (x \div k_) * k_ + i), At(temp, (x % k_) + i * k_))))))

\* a faulty fill of vand_matrix: the powers 2^(row*col), column 0 included
new_vand_matrix_plain(k_, n_) ==
    MkVec(k_ * n_, LAMBDA x : gf_pow(2, (x \div n_) * (x % n_)))

\* vand_matrix[row*n+col]: a after col-1 multiplications by g, g = 2^row
new_vand_matrix(k_, n_) ==
    MkVec(k_ * n_, LAMBDA x :
      LET row == x \div n_
          col == x % n_
      IN IF col = 0 THEN (IF row = 0 THEN 1 ELSE 0)
         ELSE gf_pow(gf_pow(2, row), col - 1))

\* FEC::FEC(k_, n_): [err, k, n, enc_matrix, vand_matrix]. The member
\* initializers size the two vectors by the int n*k, converted to size_t,
\* before the body validates: a negative product is a length beyond
\* max_size() and the vector constructor throws std::length_error
FEC(k_, n_) ==
    IF n_ * k_ < 0
    THEN [err |-> "LengthError", k |-> k_, n |-> n_, enc_matrix |-> <<>>, vand_matrix |-> <<>>]
    ELSE IF ~ValidParameters(k_, n_)
    THEN [err |-> "InvalidParameters", k |-> k_, n |-> n_,
          enc_matrix |-> Zeros(n_ * k_), vand_matrix |-> Zeros(k_ * n_)]
    ELSE [err |-> "", k |-> k_, n |-> n_,
          enc_matrix |-> new_enc_matrix(k_, n_), vand_matrix |-> new_vand_matrix(k_, n_)]

Required == k

Total == n

\* a share: its number and its bytes
Share(num, data) == [num |-> num, data |-> data]

\* addmul(buf, blocks[j], coefs[j]) for every j in turn
addmul_all(buf, blocks, coefs) ==
    IF blocks = <<>> THEN buf
    ELSE addmul_all(addmul(buf, Head(blocks), Head(coefs)), Tail(blocks), Tail(coefs))

\* the k blocks of block_size bytes of a buffer
Blocks(buffer, block_size) == MkVec(k, LAMBDA j : Slice(buffer, j * block_size, block_size))

(***************************************************************************)
(* Encode and EncodeSingle.                                                *)
(***************************************************************************)
\* a faulty encode_share: every primary share is cut from the start of the input
encode_share_first(in, block_size, i) ==
    IF i < k THEN Share(i, Slice(in, 0, block_size))
    ELSE Share(i, addmul_all(Zeros(block_size), Blocks(in, block_size),
                             Slice(enc_matrix, i * k, k)))

\* the share Encode hands to output(i, ...)
encode_share(in, block_size, i) ==
    IF i < k THEN Share(i, Slice(in, i * block_size, block_size))
    ELSE Share(i, addmul_all(Zeros(block_size), Blocks(in, block_size),
                             Slice(enc_matrix, i * k, k)))

\* a faulty Encode loop: the shares are handed out from the last to the first
encode_loop_descending(in, block_size, i, out) ==
    MkVec(n, LAMBDA j : encode_share(in, block_size, n - 1 - j))

\* the two loops of Encode from share i on: the callback log
encode_loop(in, block_size, i, out) ==
    IF i >= n THEN out
    ELSE encode_loop(in, block_size, i + 1, Append(out, encode_share(in, block_size, i)))

\* a faulty Encode: the input length is not checked
Encode_unchecked(in) == [err |-> "", out |-> encode_loop(in, Len(in) \div k, 0, <<>>)]

\* FEC::Encode: [err, out]
Encode(in) ==
    IF Len(in) % k # 0 THEN [err |-> "InvalidLength", out |-> <<>>]
    ELSE [err |-> "", out |-> encode_loop(in, Len(in) \div k, 0, <<>>)]

\* a faulty EncodeSingle: the row of enc_matrix is taken at num, not num * k
EncodeSingle_row(num, in, output) ==
    IF num < 0 \/ num >= n \/ Len(in) % k # 0 \/ Len(output) # Len(in) \div k
    THEN [err |-> IF num < 0 \/ num >= n THEN "InvalidParameters" ELSE "InvalidLength",
          output |-> output]
    ELSE [err |-> "",
          output |-> addmul_all(Zeros(Len(output)), Blocks(in, Len(in) \div k),
                                Slice(enc_matrix, num, k))]

\* a faulty EncodeSingle: the output is zeroed before the lengths are checked
EncodeSingle_fill(num, in, output) ==
    IF num < 0 \/ num >= n THEN [err |-> "InvalidParameters", output |-> output]
    ELSE IF Len(in) % k # 0 \/ Len(output) # Len(in) \div k
    THEN [err |-> "InvalidLength", output |-> Zeros(Len(output))]
    ELSE [err |-> "",
          output |-> addmul_all(Zeros(Len(output)), Blocks(in, Len(in) \div k),
                                Slice(enc_matrix, num * k, k))]

\* FEC::EncodeSingle into the caller's buffer output: [err, output]
EncodeSingle(num, in, output) ==
    LET block_size == Len(in) \div k
    IN IF num < 0 \/ num >= n THEN [err |-> "InvalidParameters", output |-> output]
       ELSE IF Len(in) % k # 0 THEN [err |-> "InvalidLength", output |-> output]
       ELSE IF Len(output) # block_size THEN [err |-> "InvalidLength", output |-> output]
       ELSE IF num < k
            THEN [err |-> "", output |-> Slice(in, num * block_size, block_size)]
       ELSE [err |-> "",
             output |-> addmul_all(Zeros(Len(output)), Blocks(in, block_size),
                                   Slice(enc_matrix, num * k, k))]

(***************************************************************************)
(* Rebuild.                                                                *)
(***************************************************************************)
\* one pass of the first loop of RebuildSorted, on
\* st = [err, b, e, missing, dm, indexes, begins, share_size, out]
rebuild_select(sh, st, i) ==
    LET at_b == At(sh, st.b)
        at_e == At(sh, Len(sh) - 1 - st.e)
        from_b == at_b.num = i
        share == IF from_b THEN at_b ELSE at_e
        share_id == share.num
        row == IF share_id < k THEN MkVec(k, LAMBDA j : IF j = i THEN 1 ELSE 0)
               ELSE Slice(enc_matrix, share_id * k, k)
        chosen == [st EXCEPT !.b = IF from_b THEN @ + 1 ELSE @,
                             !.e = IF from_b THEN @ ELSE @ + 1,
                             !.missing = @ \/ ~from_b,
                             !.begins = Append(@, share.data),
                             !.share_size = Len(share.data)]
    IN IF st.err # "" THEN st
       ELSE IF share_id < 0 \/ share_id >= n THEN [chosen EXCEPT !.err = "InvalidShareNum"]
       ELSE [chosen EXCEPT
               !.dm = @ \o row,
               !.indexes = Append(@, share_id),
               !.out = IF share_id < k THEN Append(@, Share(share_id, share.data)) ELSE @]

rebuild_select_loop(sh, st, i) ==
    IF i >= k THEN st ELSE rebuild_select_loop(sh, rebuild_select(sh, st, i), i + 1)

\* a faulty last loop of RebuildSorted: no reconstructed share is handed out
rebuild_decode_none(st, dm, i, out) == out

\* the last loop of RebuildSorted from index i on: the callback log
rebuild_decode_loop(st, dm, i, out) ==
    IF i >= Len(st.indexes) THEN out
    ELSE rebuild_decode_loop(st, dm, i + 1,
           IF At(st.indexes, i) >= k
           THEN Append(out, Share(i, addmul_all(Zeros(st.share_size),
                                     MkVec(k, LAMBDA col : Slice(At(st.begins, col), 0, st.share_size)),
                                     Slice(dm, i * k, k))))
           ELSE out)

\* a faulty RebuildSorted: the shares are counted after the primary ones were
\* handed out
RebuildSorted_late(sh) ==
    [err |-> IF Len(sh) < k THEN "NotEnoughShares" ELSE "",
     out |-> MkVec(Cardinality({t \in 1..Len(sh) : sh[t].num \in 0..(k - 1)}),
                   LAMBDA i : At(sh, i))]

\* FEC::RebuildSorted on shares in iteration order: [err, out]
RebuildSorted(sh) ==
    IF Len(sh) < k THEN [err |-> "NotEnoughShares", out |-> <<>>]
    ELSE With(rebuild_select_loop(sh,
                [err |-> "", b |-> 0, e |-> 0, missing |-> FALSE, dm |-> <<>>,
                 indexes |-> <<>>, begins |-> <<>>, share_size |-> 0, out |-> <<>>], 0),
              LAMBDA st :
      IF st.err # "" THEN [err |-> st.err, out |-> st.out]
      ELSE IF ~st.missing THEN [err |-> "", out |-> st.out]
      ELSE With(invertMatrix(st.dm, k), LAMBDA inv :
             IF inv.err # "" THEN [err |-> inv.err, out |-> st.out]
             ELSE [err |-> "", out |-> rebuild_decode_loop(st, inv.matrix, 0, st.out)]))

\* a faulty SortAndRebuild: the shares go to RebuildSorted in the caller's order
unsorted_shares(sh) == sh

\* the std::map SortAndRebuild fills with try_emplace: ascending share numbers,
\* the first share of each number
sorted_shares(sh) ==
    LET nums == {sh[i].num : i \in 1..Len(sh)}
        first(num) == sh[Min({i \in 1..Len(sh) : sh[i].num = num})]
        rank(num) == Cardinality({m \in nums : m < num})
    IN MkVec(Cardinality(nums), LAMBDA j : first(CHOOSE num \in nums : rank(num) = j))

\* FEC::Rebuild: [err, out]
Rebuild(sh) == RebuildSorted(sorted_shares(sh))

(***************************************************************************)
(* Correct: the syndrome check and Berlekamp-Welch.                        *)
(***************************************************************************)
interp_base == 2

\* faulty evaluation points: the share number itself
eval_point_num(num) == num

eval_point(num) == IF num = 0 THEN 0 ELSE gf_pow(interp_base, num - 1)

\* FEC::syndromeMatrix: the columns of vand_matrix of the share numbers present,
\* in ascending share number, standardized and turned into parity form
syndromeMatrix(shares_nums) ==
    LET keepers == {shares_nums[i] : i \in 1..Len(shares_nums)}
        shareCount == Cardinality(keepers)
        \* the column j with j - skipped = col
        kept(col) == CHOOSE j \in keepers : Cardinality({m \in keepers : m < j}) = col
    IN With(MkVec(shareCount, kept), LAMBDA cols :
         parity(standardize(
           [d |-> MkVec(k * shareCount, LAMBDA x :
                    At(vand_matrix, (x \div shareCount) * n + At(cols, x % shareCount))),
            r |-> k, c |-> shareCount])))

\* a faulty berlekampWelch: the number of correctable errors is not looked at
berlekampWelch_unguarded(sh, index) == [err |-> "", out |-> Zeros(n)]

\* FEC::berlekampWelch at byte index: [err, out]; sh are the shares in the
\* order of shares_vec, of which the first dim make up the system
berlekampWelch(sh, index) ==
    LET r == Len(sh)
        e == (r - k) \div 2
        q == e + k
        dim == q + e
        r_(i) == At(At(sh, i).data, index)
    IN IF e <= 0 THEN [err |-> "NotEnoughShares", out |-> <<>>]
       ELSE With(MkVec(dim, LAMBDA i : eval_point(At(sh, i).num)), LAMBDA x :
            With(invert_with(
                   [d |-> MkVec(dim * dim, LAMBDA y :
                            IF y % dim < q THEN gf_pow(At(x, y \div dim), y % dim)
                            ELSE gf_mul(gf_pow(At(x, y \div dim), (y % dim) - q),
                                        r_(y \div dim))),
                    r |-> dim, c |-> dim],
                   [d |-> MkVec(dim * dim, LAMBDA y : IF y \div dim = y % dim THEN 1 ELSE 0),
                    r |-> dim, c |-> dim])[2], LAMBDA a :
            With(MkVec(dim, LAMBDA i : gf_mul(gf_pow(At(x, i), e), r_(i))), LAMBDA f :
            With(MkVec(dim, LAMBDA i : gf_dot(f, index_row(a, dim - 1 - i))), LAMBDA u :
            With(poly_div(poly_shift(GFPoly(u), e), GFPoly(<<1>> \o Slice(u, 0, e))),
                 LAMBDA qr :
              IF qr.err # "" THEN [err |-> qr.err, out |-> <<>>]
              ELSE IF ~poly_is_zero(qr.r) THEN [err |-> "TooManyErrors", out |-> <<>>]
              ELSE [err |-> "",
                    out |-> MkVec(n, LAMBDA i :
                              poly_eval(qr.q, IF i # 0 THEN gf_pow(interp_base, i - 1)
                                              ELSE 0))])))))

\* a faulty byte loop of correct_: a non-zero syndrome is ignored
correct_bytes_ignored(sh, buf, j) == [err |-> "", sh |-> sh]

\* a faulty byte loop of correct_: a position that cannot be corrected is cleared
correct_bytes_clearing(sh, buf, j) ==
    IF j >= Len(buf) THEN [err |-> "", sh |-> sh]
    ELSE IF At(buf, j) = 0 THEN correct_bytes(sh, buf, j + 1)
    ELSE With(berlekampWelch(sh, j), LAMBDA data :
           IF data.err # ""
           THEN [err |-> data.err,
                 sh |-> MkVec(Len(sh), LAMBDA t : [At(sh, t) EXCEPT !.data[j + 1] = 0])]
           ELSE correct_bytes(
                  MkVec(Len(sh), LAMBDA t :
                    [At(sh, t) EXCEPT !.data[j + 1] = At(data.out, At(sh, t).num)]),
                  buf, j + 1))

\* the byte loop of correct_ for one syndrome row, from byte j on: [err, sh]
correct_bytes(sh, buf, j) ==
    IF j >= Len(buf) THEN [err |-> "", sh |-> sh]
    ELSE IF At(buf, j) = 0 THEN correct_bytes(sh, buf, j + 1)
    ELSE With(berlekampWelch(sh, j), LAMBDA data :
           IF data.err # "" THEN [err |-> data.err, sh |-> sh]
           ELSE correct_bytes(
                  MkVec(Len(sh), LAMBDA t :
                    [At(sh, t) EXCEPT !.data[j + 1] = At(data.out, At(sh, t).num)]),
                  buf, j + 1))

\* the row loop of correct_ from syndrome row i on: [err, sh]
correct_rows(sh, synd, share_size, i) ==
    IF i >= synd.r THEN [err |-> "", sh |-> sh]
    ELSE With(correct_bytes(sh,
                addmul_all(Zeros(share_size),
                           MkVec(synd.c, LAMBDA j : Slice(At(sh, j).data, 0, share_size)),
                           index_row(synd, i)), 0), LAMBDA done :
           IF done.err # "" THEN done
           ELSE correct_rows(done.sh, synd, share_size, i + 1))

\* FEC::correct_: [err, sh]
correct_(sh, share_size) ==
    correct_rows(sh, syndromeMatrix(MkVec(Len(sh), LAMBDA t : At(sh, t).num)), share_size, 0)

\* a faulty Correct: too few shares are NotEnoughShares, as in Rebuild
Correct_NotEnough(sh) ==
    IF Len(sh) < k THEN [err |-> "NotEnoughShares", sh |-> sh]
    ELSE correct_(sh, IF sh = <<>> THEN 0 ELSE Len(sh[Len(sh)].data))

\* FEC::Correct on the shares in the caller's order: [err, sh]
Correct(sh) ==
    IF Len(sh) < k THEN [err |-> "InvalidParameters", sh |-> sh]
    ELSE correct_(sh, IF sh = <<>> THEN 0 ELSE Len(sh[Len(sh)].data))

\* a faulty DecodeTo: Rebuild runs on the shares before Correct does
DecodeTo_RebuildFirst(sh) ==
    With(Rebuild(sh), LAMBDA rb :
      With(Correct(sh), LAMBDA corrected :
        [err |-> IF rb.err # "" THEN rb.err ELSE corrected.err,
         sh |-> corrected.sh,
         out |-> rb.out]))

\* FEC::DecodeTo: [err, sh, out]
DecodeTo(sh) ==
    With(Correct(sh), LAMBDA corrected :
      IF corrected.err # "" THEN [err |-> corrected.err, sh |-> corrected.sh, out |-> <<>>]
      ELSE With(Rebuild(corrected.sh), LAMBDA rb :
             [err |-> rb.err, sh |-> corrected.sh, out |-> rb.out]))

\* a faulty callback of Decode: the size of the output buffer is not looked at
decode_copy_unchecked(out_calls, st, i) ==
    [err |-> "",
     share_size |-> IF out_calls = <<>> THEN 0 ELSE Len(Head(out_calls).data),
     output |-> MkVec(Len(st.output), LAMBDA x :
                  IF \E c \in 1..Len(out_calls) :
                       /\ out_calls[c].data # <<>>
                       /\ x \div Len(out_calls[c].data) = out_calls[c].num
                  THEN LET c == CHOOSE c \in 1..Len(out_calls) :
                                  x \div Len(out_calls[c].data) = out_calls[c].num
                       IN At(out_calls[c].data, x % Len(out_calls[c].data))
                  ELSE At(st.output, x))]

\* the callback Decode hands to Rebuild, run on the calls out_calls from i on:
\* st = [err, share_size, output]
decode_copy(out_calls, st, i) ==
    IF i >= Len(out_calls) \/ st.err # "" THEN st
    ELSE LET call == At(out_calls, i)
             size == IF st.share_size = 0 THEN Len(call.data) ELSE st.share_size
         IN IF st.share_size = 0 /\ Len(st.output) < size * k
            THEN [st EXCEPT !.err = "InvalidLength", !.share_size = size]
            ELSE decode_copy(out_calls,
                   [st EXCEPT !.share_size = size,
                              !.output = MkVec(Len(st.output), LAMBDA x :
                                  IF x >= call.num * size /\ x < call.num * size + Len(call.data)
                                  THEN At(call.data, x - call.num * size)
                                  ELSE At(st.output, x))],
                   i + 1)

\* FEC::Decode: [err, sh, output, ret]
Decode(sh, output) ==
    With(Correct(sh), LAMBDA corrected :
      IF corrected.err # ""
      THEN [err |-> corrected.err, sh |-> corrected.sh, output |-> output, ret |-> 0]
      ELSE With(Rebuild(corrected.sh), LAMBDA rb :
           With(decode_copy(rb.out, [err |-> "", share_size |-> 0, output |-> output], 0),
                LAMBDA st :
             [err |-> IF st.err # "" THEN st.err ELSE rb.err,
              sh |-> corrected.sh,
              output |-> st.output,
              ret |-> IF st.err # "" \/ rb.err # "" THEN 0 ELSE st.share_size * k])))

(***************************************************************************)
(* The caller: construct, encode, keep some shares, damage or forge them,  *)
(* decode.                                                                 *)
(***************************************************************************)
\* no instance yet and no call made
Unbuilt ==
    /\ k = 0
    /\ n = 0
    /\ enc_matrix = <<>>
    /\ vand_matrix = <<>>
    /\ input = <<>>
    /\ emitted = <<>>
    /\ shares = <<>>
    /\ given = <<>>
    /\ rebuilt = <<>>
    /\ arg = -1
    /\ outbuf0 = <<>>
    /\ outbuf = <<>>
    /\ returned = 0
    /\ calls = <<>>
    /\ result = ""
    /\ pc = "start"

\* one caller at a time and a single instance; its operations divide by monic
\* polynomials only, so that nothing is read before gf_exp
Init ==
    /\ Unbuilt
    /\ operands = <<>>
    /\ value = <<>>
    /\ thread = <<>>
    /\ scratch = <<>>
    /\ stray = -1

\* the values the caller constructs an instance with
Parameters == {-1, 0} \cup (1..MaxN) \cup {byte_max + 1}

Construct ==
    /\ pc = "start"
    /\ \E k_ \in Parameters, n_ \in Parameters :
         \E res \in {FEC(k_, n_)} :
            /\ result' = res.err
            /\ pc' = IF res.err = "" THEN "constructed" ELSE "rejected"
            /\ k' = res.k
            /\ n' = res.n
            /\ enc_matrix' = res.enc_matrix
            /\ vand_matrix' = res.vand_matrix
    /\ UNCHANGED aside
    /\ UNCHANGED <<input, emitted, shares, given, rebuilt, arg, outbuf0, outbuf, returned,
                   calls>>

\* the buffers the caller encodes
Inputs ==
    UNION {[1..len -> InputBytes] : len \in {l \in 0..MaxLen : l \div k <= MaxBlock}}

\* the output buffers of about need bytes the caller brings
Buffers(need) ==
    UNION {[1..len -> BufferBytes] : len \in {l \in (need - 1)..(need + 1) : l >= 0}}

CallEncode ==
    /\ pc = "constructed"
    /\ \E in \in Inputs :
         \E res \in {Encode(in)} :
            /\ input' = in
            /\ emitted' = res.out
            /\ result' = res.err
            /\ pc' = IF res.err = "" THEN "encoded" ELSE "failed"
    /\ UNCHANGED aside
    /\ UNCHANGED <<k, n, enc_matrix, vand_matrix, shares, given, rebuilt, arg, outbuf0,
                   outbuf, returned, calls>>

CallEncodeSingle ==
    /\ pc = "constructed"
    /\ \E in \in Inputs, num \in (-1)..n :
         \E output \in Buffers(Len(in) \div k) :
           \E res \in {EncodeSingle(num, in, output)} :
              /\ input' = in
              /\ arg' = num
              /\ outbuf0' = output
              /\ outbuf' = res.output
              /\ result' = res.err
    /\ pc' = "single"
    /\ UNCHANGED aside
    /\ UNCHANGED <<k, n, enc_matrix, vand_matrix, emitted, shares, given, rebuilt, returned,
                   calls>>

\* the sequences of distinct share numbers
Selections ==
    {sel \in UNION {[1..r -> 0..(n - 1)] : r \in 0..n} :
        \A i, j \in 1..Len(sel) : i # j => sel[i] # sel[j]}

\* the caller keeps copies of some emitted shares, in an order of its choice
Supply ==
    /\ pc = "encoded"
    /\ \E sel \in Selections :
         /\ shares' = MkVec(Len(sel), LAMBDA i : At(emitted, At(sel, i)))
         /\ given' = shares'
    /\ pc' = "supplied"
    /\ UNCHANGED aside
    /\ UNCHANGED <<k, n, enc_matrix, vand_matrix, input, emitted, rebuilt, arg, outbuf0,
                   outbuf, returned, calls, result>>

\* the shares of sh are shares Encode emitted, bytes aside: numbers in
\* [0, n), no number twice, every share of the block size
WellFormed(sh) ==
    /\ \A t \in 1..Len(sh) : sh[t].num \in 0..(n - 1) /\ Len(sh[t].data) = Len(input) \div k
    /\ \A t, u \in 1..Len(sh) : t # u => sh[t].num # sh[u].num

\* the bytes of the collection sh that differ from what Encode emitted
Damaged(sh) ==
    {<<t, j>> \in (1..Len(sh)) \X (1..(Len(input) \div k)) :
        sh[t].data[j] # emitted[sh[t].num + 1].data[j]}

\* a byte of a supplied share is overwritten with another value
Damage ==
    /\ pc = "supplied"
    /\ calls = <<>>
    /\ WellFormed(shares)
    /\ Len(input) <= MaxDamagedLen
    /\ Cardinality(Damaged(shares)) < MaxErrs
    /\ \E t \in 1..Len(shares), j \in 1..(Len(input) \div k), v \in NoiseBytes :
         /\ <<t, j>> \notin Damaged(shares)
         /\ v # shares[t].data[j]
         /\ shares' = [shares EXCEPT ![t].data[j] = v]
         /\ given' = shares'
    /\ UNCHANGED aside
    /\ UNCHANGED <<k, n, enc_matrix, vand_matrix, input, emitted, rebuilt, arg, outbuf0,
                   outbuf, returned, calls, result, pc>>

\* one supplied share gets another number, or one more byte
Forge ==
    /\ pc = "supplied"
    /\ calls = <<>>
    /\ WellFormed(shares)
    /\ \A t \in 1..Len(shares) : shares[t] = At(emitted, shares[t].num)
    /\ \E t \in 1..Len(shares) :
         \/ \E num \in (-1)..n :
              /\ num # shares[t].num
              /\ shares' = [shares EXCEPT ![t].num = num]
         \/ \E v \in InputBytes : shares' = [shares EXCEPT ![t].data = Append(@, v)]
    /\ given' = shares'
    /\ UNCHANGED aside
    /\ UNCHANGED <<k, n, enc_matrix, vand_matrix, input, emitted, rebuilt, arg, outbuf0,
                   outbuf, returned, calls, result, pc>>

\* Correct on sh keeps its reads and writes inside keepers, the syndrome
\* matrix and the share buffers: it indexes keepers by every num, standardizes
\* a matrix of k rows and one column per distinct num, and indexes every share
\* up to the size of the last one
CorrectInBounds(sh) ==
    IF Len(sh) < k THEN TRUE
    ELSE /\ \A t \in 1..Len(sh) : sh[t].num \in 0..(n - 1)
         /\ Cardinality({sh[t].num : t \in 1..Len(sh)}) >= k
         /\ \A t \in 1..Len(sh) : Len(sh[t].data) >= Len(sh[Len(sh)].data)

\* Rebuild on sh keeps its reads inside the share buffers: it reads every
\* selected share up to the size of the share selected last
RebuildInBounds(sh) ==
    IF Len(sorted_shares(sh)) < k THEN TRUE
    ELSE \E st \in {rebuild_select_loop(sorted_shares(sh),
                    [err |-> "", b |-> 0, e |-> 0, missing |-> FALSE, dm |-> <<>>,
                     indexes |-> <<>>, begins |-> <<>>, share_size |-> 0, out |-> <<>>], 0)} :
           IF st.err # "" THEN TRUE
           ELSE \A col \in 1..Len(st.begins) : Len(st.begins[col]) >= st.share_size

CallCorrect ==
    /\ pc = "supplied"
    /\ \/ calls = <<>>
       \/ calls = <<"Correct">> /\ result = ""
    /\ CorrectInBounds(shares)
    /\ \E res \in {Correct(shares)} :
          /\ shares' = res.sh
          /\ result' = res.err
    /\ calls' = Append(calls, "Correct")
    /\ UNCHANGED aside
    /\ UNCHANGED <<k, n, enc_matrix, vand_matrix, input, emitted, given, rebuilt, arg,
                   outbuf0, outbuf, returned, pc>>

\* a faulty Rebuild: the decoding matrix is set up in enc_matrix itself, the
\* rows of the last k shares over the first k rows
CallRebuild_InPlace ==
    /\ pc = "supplied"
    /\ calls = <<>>
    /\ RebuildInBounds(shares)
    /\ \E res \in {Rebuild(shares)} :
          /\ rebuilt' = res.out
          /\ result' = res.err
    /\ enc_matrix' = Slice(enc_matrix, (n - k) * k, k * k) \o Slice(enc_matrix, k * k, (n - k) * k)
    /\ calls' = Append(calls, "Rebuild")
    /\ UNCHANGED aside
    /\ UNCHANGED <<k, n, vand_matrix, input, emitted, shares, given, arg,
                   outbuf0, outbuf, returned, pc>>

CallRebuild ==
    /\ pc = "supplied"
    /\ calls = <<>>
    /\ RebuildInBounds(shares)
    /\ \E res \in {Rebuild(shares)} :
          /\ rebuilt' = res.out
          /\ result' = res.err
    /\ calls' = Append(calls, "Rebuild")
    /\ UNCHANGED aside
    /\ UNCHANGED <<k, n, enc_matrix, vand_matrix, input, emitted, shares, given, arg,
                   outbuf0, outbuf, returned, pc>>

CallDecodeTo ==
    /\ pc = "supplied"
    /\ calls = <<>>
    /\ CorrectInBounds(shares)
    /\ RebuildInBounds(shares)
    /\ \E res \in {DecodeTo(shares)} :
          /\ shares' = res.sh
          /\ rebuilt' = res.out
          /\ result' = res.err
    /\ calls' = Append(calls, "DecodeTo")
    /\ UNCHANGED aside
    /\ UNCHANGED <<k, n, enc_matrix, vand_matrix, input, emitted, given, arg, outbuf0,
                   outbuf, returned, pc>>

CallDecode ==
    /\ pc = "supplied"
    /\ calls = <<>>
    /\ WellFormed(shares)
    /\ \E output \in Buffers(Len(input)) :
         \E res \in {Decode(shares, output)} :
            /\ shares' = res.sh
            /\ outbuf0' = output
            /\ outbuf' = res.output
            /\ returned' = res.ret
            /\ result' = res.err
    /\ calls' = Append(calls, "Decode")
    /\ UNCHANGED aside
    /\ UNCHANGED <<k, n, enc_matrix, vand_matrix, input, emitted, given, rebuilt, arg, pc>>

\* a caller whose shares arrive as they were emitted
Next ==
    \/ Construct
    \/ CallEncode
    \/ CallEncodeSingle
    \/ Supply
    \/ CallCorrect
    \/ CallRebuild
    \/ CallDecodeTo
    \/ CallDecode

Spec == Init /\ [][Next]_vars

\* a caller whose shares may arrive with damaged bytes
NextDamage ==
    \/ Construct
    \/ CallEncode
    \/ Supply
    \/ Damage
    \/ CallCorrect
    \/ CallRebuild
    \/ CallDecodeTo

SpecDamage == Init /\ [][NextDamage]_vars

\* a caller whose shares may arrive with another number or length
NextForge ==
    \/ Construct
    \/ CallEncode
    \/ Supply
    \/ Forge
    \/ CallCorrect
    \/ CallRebuild
    \/ CallDecodeTo

SpecForge == Init /\ [][NextForge]_vars


(***************************************************************************)
(* The contract of encoding and decoding.                                  *)
(***************************************************************************)
\* the share size B of the encoded input
BlockSize == Len(input) \div k

\* the i-th block of the input, as the share it is
Primary(i) == Share(i, Slice(input, i * BlockSize, BlockSize))

Originals == {Primary(i) : i \in 0..(k - 1)}

Range(s) == {s[i] : i \in 1..Len(s)}

\* the decoding operation op, and nothing else, has run on the supplied shares
Did(op) == pc = "supplied" /\ calls = <<op>>

Ascending(sh) == \A t \in 1..(Len(sh) - 1) : sh[t].num < sh[t + 1].num

\* the number of shares of sh whose byte j is not the byte Encode emitted
WrongAt(sh, j) == Cardinality({t \in 1..Len(sh) : <<t, j>> \in Damaged(sh)})

\* the callback log out is the k blocks of the input, each once
Recovered(out) == Len(out) = k /\ Range(out) = Originals

\* C1: any k distinct shares of an Encode, handed to Rebuild, DecodeTo or
\* Decode, give back the input: the blocks emitted for num 0..k-1 are the
\* blocks of the input (Decode: the first B*k bytes of a large enough buffer)
C1_RoundTrip ==
    (pc = "supplied" /\ Len(given) = k /\ calls # <<>>) =>
        CASE calls[1] \in {"Rebuild", "DecodeTo"} -> result = "" /\ Recovered(rebuilt)
          [] calls[1] = "Decode" ->
               Len(outbuf0) >= Len(input) =>
                  result = "" /\ Slice(outbuf, 0, Len(input)) = input
          [] OTHER -> TRUE

\* k = 2 parity shares, given in descending order, rebuilt a non-zero input
C1_Witness ==
    /\ Did("Rebuild")
    /\ k = 2
    /\ Len(given) = 2
    /\ given[1].num = 3
    /\ given[2].num = 2
    /\ input = <<0, 1, 1, 0>>
    /\ Recovered(rebuilt)

\* C2: DecodeTo on k+2e distinct shares of an Encode, 1 <= e <= (n-k)/2, of
\* which at every byte position at most e carry a wrong byte, succeeds and
\* emits the blocks of the input
C2_CorrectionRadius ==
    (/\ Did("DecodeTo")
     /\ \E e \in 1..((n - k) \div 2) :
          /\ Len(given) = k + 2 * e
          /\ \A j \in 1..BlockSize : WrongAt(given, j) <= e)
    => (result = "" /\ Recovered(rebuilt))

\* C3: the share Encode emits with num = i < k is input[i*B .. (i+1)*B)
C3_Systematic ==
    pc \in {"encoded", "supplied"} => \A i \in 0..(k - 1) : At(emitted, i) = Primary(i)

\* an Encode of two different blocks of two bytes, with parity shares
C3_Witness ==
    /\ pc = "encoded"
    /\ k = 2
    /\ n = 4
    /\ input = <<0, 1, 1, 1>>
    /\ At(emitted, 1).data = <<1, 1>>

\* C4: for num in [0, n), an input of a multiple of k bytes and an output
\* buffer of the block size, EncodeSingle fills the buffer with the bytes
\* Encode passes to the callback for share num
C4_SingleShare ==
    (pc = "single" /\ arg \in 0..(n - 1) /\ Len(input) % k = 0 /\ Len(outbuf0) = BlockSize)
    => (result = "" /\ outbuf = At(Encode(input).out, arg).data)

\* EncodeSingle computed a parity share that is not all zero
C4_Witness ==
    /\ pc = "single"
    /\ result = ""
    /\ arg >= k
    /\ k = 2
    /\ Len(outbuf) = 2
    /\ outbuf # <<0, 0>>
    /\ outbuf # outbuf0

\* C5: a successful Encode invokes the callback exactly n times, the j-th
\* invocation, from 0, with num = j
C5_EncodeOrder ==
    pc \in {"encoded", "supplied"} =>
        Len(emitted) = n /\ \A j \in 0..(n - 1) : At(emitted, j).num = j

\* an Encode that emitted primary and parity shares
C5_Witness ==
    /\ pc = "encoded"
    /\ k = 2
    /\ n = 4
    /\ Len(emitted) = 4
    /\ Len(input) = 2

\* C6: a Rebuild of at least k shares with distinct in-range numbers, sorted
\* ascending, that returns normally has invoked the callback exactly k times,
\* once for each num in [0, k)
C6_RebuildTotal ==
    (Did("Rebuild") /\ Len(given) >= k /\ Ascending(given) /\ result = "") =>
        /\ Len(rebuilt) = k
        /\ \A i \in 0..(k - 1) : Cardinality({t \in 1..Len(rebuilt) : rebuilt[t].num = i}) = 1

\* a Rebuild of k ascending shares among which primary share 0 is missing
C6_Witness ==
    /\ Did("Rebuild")
    /\ result = ""
    /\ k = 3
    /\ Len(given) = 3
    /\ Ascending(given)
    /\ given[1].num = 1
    /\ Len(rebuilt) = 3

\* C7: within one Rebuild, the primary shares present in the input are
\* emitted first, in ascending num, and the reconstructed shares after them,
\* in ascending num
C7_RebuildOrder ==
    (Did("Rebuild") /\ result = "") =>
        LET present == {s.num : s \in Range(given)} \cap (0..(k - 1))
            p == Cardinality(present)
        IN /\ Len(rebuilt) >= p
           /\ \A t \in 1..p : rebuilt[t].num \in present
           /\ \A t \in (p + 1)..Len(rebuilt) : rebuilt[t].num \notin present
           /\ \A t \in 1..(Len(rebuilt) - 1) :
                 t # p => rebuilt[t].num < rebuilt[t + 1].num

\* primary shares 0 and 2 were present and emitted before the reconstructed 1
C7_Witness ==
    /\ Did("Rebuild")
    /\ result = ""
    /\ k = 3
    /\ Len(rebuilt) = 3
    /\ rebuilt[1].num = 0
    /\ rebuilt[2].num = 2
    /\ rebuilt[3].num = 1
    /\ given[1].num = 3

\* C8: DecodeTo on any ordering of between k+2 and n distinct shares, of which
\* at every byte position at most one is corrupted, emits exactly the k
\* blocks of the input
C8_OrderIndependence ==
    (/\ Did("DecodeTo")
     /\ Len(given) >= k + 2
     /\ \A j \in 1..BlockSize : WrongAt(given, j) <= 1)
    => (result = "" /\ Recovered(rebuilt))

\* C9: Correct on r >= k distinct uncorrupted shares of an Encode returns
\* without error and changes no share byte, and so does a second Correct
C9_Idempotence ==
    (/\ pc = "supplied"
     /\ calls \in {<<"Correct">>, <<"Correct", "Correct">>}
     /\ Len(given) >= k
     /\ Damaged(given) = {})
    => (result = "" /\ shares = given)

\* some byte position of the k+2e supplied shares has e+1 corrupted shares
BeyondRadius ==
    \E e \in 1..((n - k) \div 2) :
        /\ Len(given) = k + 2 * e
        /\ \E j \in 1..BlockSize : WrongAt(given, j) = e + 1

Codeword(sh) ==
    \E rb \in {Rebuild(sh)} :
        /\ rb.err = ""
        /\ Len(rb.out) = k
        /\ \E data \in {MkVec(Len(input), LAMBDA x :
                          At((CHOOSE s \in Range(rb.out) : s.num = x \div BlockSize).data,
                             x % BlockSize))} :
             \A s \in Range(sh) : At(Encode(data).out, s.num) = s

CorrectErrors == {"InvalidParameters", "NotEnoughShares", "TooManyErrors"}

\* C11: DecodeTo is Correct run to completion, then Rebuild on the corrected
\* shares; when Correct fails, with InvalidParameters, NotEnoughShares or
\* TooManyErrors, DecodeTo fails the same way and the callback is not invoked
C11_DecodeToSequencing ==
    Did("DecodeTo") =>
        \E corrected \in {Correct(given)} :
            IF corrected.err # ""
            THEN /\ corrected.err \in CorrectErrors
                 /\ result = corrected.err
                 /\ rebuilt = <<>>
            ELSE /\ shares = corrected.sh
                 /\ \E rb \in {Rebuild(corrected.sh)} : rebuilt = rb.out /\ result = rb.err

\* a DecodeTo of enough shares to rebuild from, stopped by Correct
C11_Witness ==
    /\ Did("DecodeTo")
    /\ result = "TooManyErrors"
    /\ Len(given) = k + 2
    /\ k = 2
    /\ rebuilt = <<>>

C13_ConstructorValidation ==
    pc # "start" =>
        IF k <= 0 \/ n <= 0 \/ k > 256 \/ n > 256 \/ k > n
        THEN pc = "rejected" /\ result = "InvalidParameters"
        ELSE pc # "rejected" /\ Required = k /\ Total = n

\* C14: Encode on an input whose length is not a multiple of k fails with
\* InvalidLength and has not invoked the callback
C14_EncodeLength ==
    (pc \in {"encoded", "failed", "supplied"} /\ Len(input) % k # 0) =>
        (pc = "failed" /\ result = "InvalidLength" /\ emitted = <<>>)

\* an Encode of four bytes into shares of a third of the input
C14_Witness ==
    /\ pc = "failed"
    /\ k = 3
    /\ n = 4
    /\ Len(input) = 4
    /\ result = "InvalidLength"

\* C15: EncodeSingle fails with InvalidParameters when num < 0 or num >= n,
\* and with InvalidLength when num is in range and |input| is not a multiple
\* of k or |output| # |input|/k; a failing EncodeSingle leaves the output
\* buffer unchanged
C15_EncodeSingleValidation ==
    pc = "single" =>
        /\ (arg < 0 \/ arg >= n) => result = "InvalidParameters"
        /\ (arg \in 0..(n - 1) /\ (Len(input) % k # 0 \/ Len(outbuf0) # BlockSize))
              => result = "InvalidLength"
        /\ result # "" => outbuf = outbuf0

\* an EncodeSingle of a parity share into a buffer one byte too long
C15_Witness ==
    /\ pc = "single"
    /\ k = 2
    /\ arg = 2
    /\ Len(input) = 4
    /\ outbuf0 = <<7, 7, 7>>
    /\ result = "InvalidLength"

\* C16: Rebuild of fewer than k shares fails with NotEnoughShares and has not
\* invoked the callback
C16_RebuildTooFew ==
    (Did("Rebuild") /\ Len(given) < k) => (result = "NotEnoughShares" /\ rebuilt = <<>>)

\* two of the three shares needed, one of them primary
C16_Witness ==
    /\ Did("Rebuild")
    /\ k = 3
    /\ Len(given) = 2
    /\ given[1].num = 0
    /\ result = "NotEnoughShares"

\* C17: Rebuild of at least k shares of which one has a num outside [0, n) or
\* the num of another share fails with InvalidShareNum
C17_InvalidShareNum ==
    (/\ Did("Rebuild")
     /\ Len(given) >= k
     /\ \/ \E t \in 1..Len(given) : given[t].num \notin 0..(n - 1)
        \/ \E t, u \in 1..Len(given) : t # u /\ given[t].num = given[u].num)
    => result = "InvalidShareNum"

\* C18: Correct of fewer than k shares fails with InvalidParameters and has
\* changed no byte of a share
C18_CorrectTooFew ==
    (Did("Correct") /\ Len(given) < k) => (result = "InvalidParameters" /\ shares = given)

\* one of the two shares needed
C18_Witness ==
    /\ Did("Correct")
    /\ k = 2
    /\ Len(given) = 1
    /\ given[1].data # <<>>
    /\ result = "InvalidParameters"

\* C19: Rebuild, Correct and DecodeTo (the decoding of Decode) of shares that
\* do not all have the same byte length fail with InvalidLength
C19_UnequalLengths ==
    (/\ pc = "supplied"
     /\ calls \in {<<"Rebuild">>, <<"Correct">>, <<"DecodeTo">>}
     /\ \E t, u \in 1..Len(given) : Len(given[t].data) # Len(given[u].data))
    => result = "InvalidLength"

\* C20: once constructed, no call of Encode, EncodeSingle, Rebuild, Correct,
\* Decode or DecodeTo, successful or failing, changes k, n, the encoding
\* matrix or the Vandermonde matrix of the instance
C20_Immutable ==
    [][pc # "start" => UNCHANGED <<k, n, enc_matrix, vand_matrix>>]_vars

\* a Rebuild that had to invert a decoding matrix taken from enc_matrix
C20_Witness ==
    /\ Did("Rebuild")
    /\ result = ""
    /\ k = 2
    /\ n = 4
    /\ given[1].num = 3
    /\ enc_matrix = FEC(2, 4).enc_matrix
    /\ vand_matrix = FEC(2, 4).vand_matrix

(***************************************************************************)
(* Correct: redundancy, postcondition and frame.                           *)
(***************************************************************************)
\* the buffer correct_ computes for syndrome row i of the shares sh
syndrome_row(sh, i) ==
    With(syndromeMatrix(MkVec(Len(sh), LAMBDA t : At(sh, t).num)), LAMBDA synd :
      addmul_all(Zeros(Len(sh[Len(sh)].data)),
                 MkVec(synd.c, LAMBDA j : Slice(At(sh, j).data, 0, Len(sh[Len(sh)].data))),
                 index_row(synd, i)))

\* the byte positions of the shares sh at which some syndrome row is not zero
NonZeroSyndrome(sh) ==
    {j \in 0..(Len(sh[Len(sh)].data) - 1) :
       \E i \in 0..(Len(sh) - k - 1) : At(syndrome_row(sh, i), j) # 0}

\* C23: Correct on r = k or r = k + 1 shares changes no share byte; with
\* r = k it returns normally, with r = k + 1 it returns normally when every
\* syndrome is zero and fails with NotEnoughShares otherwise
C23_NoRedundancy ==
    (Did("Correct") /\ Len(given) \in {k, k + 1}) =>
        /\ shares = given
        /\ Len(given) = k => result = ""
        /\ Len(given) = k + 1 =>
             result = (IF NonZeroSyndrome(given) = {} THEN "" ELSE "NotEnoughShares")

\* k + 1 shares with a wrong byte: Correct failed and left the shares alone
C23_Witness ==
    /\ Did("Correct")
    /\ k = 2
    /\ Len(given) = 3
    /\ Damaged(given) # {}
    /\ result = "NotEnoughShares"
    /\ shares = given

\* C24: when Correct returns normally on r >= k shares with distinct numbers
\* in [0, n), the bytes of all the shares at every position are the values of
\* one polynomial of degree < k: the shares are the encoding of some data
C24_CorrectPostcondition ==
    (Did("Correct") /\ Len(given) >= k /\ result = "") => Codeword(shares)

(***************************************************************************)
(* Berlekamp-Welch on its own: berlekampWelch is applied to the caller's   *)
(* shares at one byte index, as the tests of berlekamp_welch_test.cpp do.  *)
(***************************************************************************)
CallBerlekampWelch ==
    /\ pc = "supplied"
    /\ calls = <<>>
    /\ operands = <<>>
    /\ WellFormed(shares)
    /\ \E index \in 0..(BlockSize - 1) :
         \E res \in {berlekampWelch(shares, index)} :
            /\ operands' = <<index>>
            /\ value' = res
    /\ UNCHANGED <<thread, scratch, stray>>
    /\ UNCHANGED <<k, n, enc_matrix, vand_matrix, input, emitted, shares, given, rebuilt,
                   arg, outbuf0, outbuf, returned, calls, result, pc>>

NextWelch ==
    \/ Construct
    \/ CallEncode
    \/ Supply
    \/ Damage
    \/ CallBerlekampWelch

SpecWelch == Init /\ [][NextWelch]_vars

\* berlekampWelch has run at byte index operands[1] of r >= k + 2 shares
DidWelch == pc = "supplied" /\ operands # <<>> /\ Len(shares) >= k + 2

\* C22: on r >= k + 2 shares of which at most e = (r - k) / 2 are wrong at
\* byte position j, berlekampWelch(shares, j) returns the vector of length n
\* whose element i is byte j of the share Encode emitted with num i
C22_RecoveryVector ==
    (DidWelch /\ WrongAt(shares, operands[1] + 1) <= (Len(shares) - k) \div 2) =>
        value = [err |-> "",
                 out |-> MkVec(n, LAMBDA i : At(At(emitted, i).data, operands[1]))]

\* three of the four shares of a k = 1 code, one of them wrong: the vector
\* holds the byte of every share, the one that was not supplied included
C22_Witness ==
    /\ DidWelch
    /\ k = 1
    /\ n = 4
    /\ Len(shares) = 3
    /\ WrongAt(shares, operands[1] + 1) = 1
    /\ input = <<1, 0>>
    /\ operands = <<0>>
    /\ value = [err |-> "", out |-> <<1, 1, 1, 1>>]

(***************************************************************************)
(* Correct on heavily damaged shares: enough damaged bytes that one        *)
(* position is corrected and another one cannot be.                        *)
(***************************************************************************)
DamageFrame ==
    /\ pc = "supplied"
    /\ calls = <<>>
    /\ WellFormed(shares)
    /\ n <= MaxFrameN
    /\ Len(input) <= MaxDamagedLen
    /\ Cardinality(Damaged(shares)) < MaxFrameErrs
    /\ \E t \in 1..Len(shares), j \in 1..(Len(input) \div k), v \in NoiseBytes :
         /\ <<t, j>> \notin Damaged(shares)
         /\ v # shares[t].data[j]
         /\ shares' = [shares EXCEPT ![t].data[j] = v]
         /\ given' = shares'
    /\ UNCHANGED aside
    /\ UNCHANGED <<k, n, enc_matrix, vand_matrix, input, emitted, rebuilt, arg, outbuf0,
                   outbuf, returned, calls, result, pc>>

NextFrame ==
    \/ Construct
    \/ CallEncode
    \/ Supply
    \/ DamageFrame
    \/ CallCorrect

SpecFrame == Init /\ [][NextFrame]_vars

\* byte position j (from 0) of every share of sh is what it was in given
Untouched(sh, j) == \A t \in 1..Len(sh) : At(sh[t].data, j) = At(given[t].data, j)

\* byte position j of the shares sh holds the recovery vector of given at j
Corrected(sh, j) ==
    \E data \in {berlekampWelch(given, j)} :
        /\ data.err = ""
        /\ \A t \in 1..Len(sh) : At(sh[t].data, j) = At(data.out, sh[t].num)

\* C25: Correct changes share bytes only at positions where a syndrome row
\* is not zero, and there it writes the recovery vector; when it fails with
\* TooManyErrors, the position that could not be corrected is as it was and
\* the positions corrected before it keep the recovery vector
C25_CorrectFrame ==
    (Did("Correct") /\ Len(given) >= k) =>
        /\ Len(shares) = Len(given)
        /\ \A t \in 1..Len(given) :
              shares[t].num = given[t].num /\ Len(shares[t].data) = Len(given[t].data)
        /\ \A j \in 0..(BlockSize - 1) :
              \/ Untouched(shares, j)
              \/ j \in NonZeroSyndrome(given) /\ Corrected(shares, j)
        /\ result = "TooManyErrors" =>
              \E j \in NonZeroSyndrome(given) :
                 /\ Untouched(shares, j)
                 /\ berlekampWelch(shares, j).err = "TooManyErrors"

\* three shares of two bytes of a k = 1 code: one wrong byte at position 0
\* was corrected, two wrong bytes at position 1 were not, and Correct failed
C25_Witness ==
    /\ Did("Correct")
    /\ k = 1
    /\ n = 3
    /\ Len(given) = 3
    /\ result = "TooManyErrors"
    /\ ~Untouched(shares, 0)
    /\ Corrected(shares, 0)
    /\ Untouched(shares, 1)

(***************************************************************************)
(* The field and polynomial arithmetic on its own: a function of           *)
(* gf_alg.hpp is applied to arguments drawn from bounded sets.             *)
(***************************************************************************)
Bytes == 0..(byte_max - 1)

InitField ==
    /\ Unbuilt
    /\ operands \in {<<"gf_div", a, b>> : a \in Bytes, b \in Bytes}
    /\ value = <<>>
    /\ thread = <<>>
    /\ scratch = <<>>
    /\ stray \in Stray

CallDiv ==
    /\ operands[1] = "gf_div"
    /\ value = <<>>
    /\ value' = gf_div(operands[2], operands[3])
    /\ UNCHANGED <<k, n, enc_matrix, vand_matrix, input, emitted, shares, given, rebuilt,
                   arg, outbuf0, outbuf, returned, calls, result, pc, operands, thread,
                   scratch, stray>>

SpecField == InitField /\ [][CallDiv]_vars

\* the function fn has been applied to the operands
Applied(fn) == operands # <<>> /\ operands[1] = fn /\ value # <<>>

\* C26: gf_div(a, b) fails with DivideByZero when b = 0, returns 0 when a = 0
\* and b # 0, and otherwise returns gf_exp[(gf_log[a] - gf_log[b]) mod 255],
\* the c with gf_mul(c, b) = a, also when gf_log[a] < gf_log[b]
C26_FieldDivision ==
    Applied("gf_div") =>
        LET a == operands[2]
            b == operands[3]
        IN IF b = 0 THEN value = Fail("DivideByZero")
           ELSE IF a = 0 THEN value = Ok(0)
           ELSE /\ value = Ok(At(gf_exp, (At(gf_log, a) - At(gf_log, b)) % top_of_range))
                /\ gf_mul(value.val, b) = a

\* the coefficient vectors, leading coefficient first, of at most MaxPolyLen bytes
Polys == UNION {[1..len -> PolyBytes] : len \in 0..MaxPolyLen}

InitPoly ==
    /\ Unbuilt
    /\ operands \in {<<"div", p, b>> : p \in Polys, b \in Polys}
    /\ value = <<>>
    /\ thread = <<>>
    /\ scratch = <<>>
    /\ stray \in Stray

CallPolyDiv ==
    /\ operands[1] = "div"
    /\ value = <<>>
    /\ value' = poly_div(GFPoly(operands[2]), GFPoly(operands[3]))
    /\ UNCHANGED <<k, n, enc_matrix, vand_matrix, input, emitted, shares, given, rebuilt,
                   arg, outbuf0, outbuf, returned, calls, result, pc, operands, thread,
                   scratch, stray>>

SpecPoly == InitPoly /\ [][CallPolyDiv]_vars

\* the coefficient vector v is empty or all zeros
ZeroPoly(v) == \A i \in 1..Len(v) : v[i] = 0

\* the degree of the polynomial pl, -1 for the zero polynomial
Degree(pl) ==
    LET nz == {w \in 0..(poly_size(pl) - 1) : poly_index(pl, w) # 0}
    IN IF nz = {} THEN -1 ELSE CHOOSE w \in nz : \A x \in nz : x <= w

\* the coefficient of x^w in q*b + r
DivisionCheck(q, b, r, w) ==
    gf_add(xor_all(MkVec(w + 1, LAMBDA i : gf_mul(poly_index(q, i), poly_index(b, w - i)))),
           poly_index(r, w))

\* C27: GFPoly::div of p by a b that is not zero after stripping its leading
\* zeros raises no error and returns q and r with q*b + r = p and
\* deg r < deg b; by an empty or all-zero b it fails with DivideByZero
C27_PolynomialDivision ==
    Applied("div") =>
        LET p == GFPoly(operands[2])
            b == GFPoly(operands[3])
        IN IF ZeroPoly(operands[3]) THEN value.err = "DivideByZero"
           ELSE /\ value.err = ""
                /\ \A w \in 0..(2 * MaxPolyLen) :
                      DivisionCheck(value.q, b, value.r, w) = poly_index(p, w)
                /\ Degree(value.r) < Degree(b)

\* C28: the remainder GFPoly::div returns for a non-zero divisor has at least
\* one coefficient, and no leading zero in front of another coefficient
C28_RemainderShape ==
    (Applied("div") /\ ~ZeroPoly(operands[3]) /\ value.err = "") =>
        /\ poly_size(value.r) >= 1
        /\ poly_size(value.r) > 1 => poly_at(value.r, 0) # 0

(***************************************************************************)
(* The matrices of an instance.                                            *)
(***************************************************************************)
\* an instance has been constructed
Constructed == pc \notin {"start", "rejected"}

InitVdm ==
    /\ Unbuilt
    /\ operands \in {<<"createInvertedVdm", k_, row, col>> :
                       k_ \in 1..MaxVdm, row \in 0..(MaxVdm - 1), col \in 0..(MaxVdm - 1)}
    /\ operands[3] < operands[2]
    /\ operands[4] < operands[2]
    /\ value = <<>>
    /\ thread = <<>>
    /\ scratch = <<>>
    /\ stray = -1

CallCreateInvertedVdm ==
    /\ operands[1] = "createInvertedVdm"
    /\ value = <<>>
    /\ value' = createInvertedVdm(operands[2])
    /\ UNCHANGED <<k, n, enc_matrix, vand_matrix, input, emitted, shares, given, rebuilt,
                   arg, outbuf0, outbuf, returned, calls, result, pc, operands, thread,
                   scratch, stray>>

SpecVdm == InitVdm /\ [][CallCreateInvertedVdm]_vars

\* entry (row, col) of B*V, B of k_ rows and columns and V[i][j] = Node(i)^j
ProductEntry(B, Node(_), k_, row, col) ==
    xor_all(MkVec(k_, LAMBDA i : gf_mul(At(B, row * k_ + i), gf_pow(Node(i), col))))

\* the entry of the identity matrix
Identity(row, col) == IF row = col THEN 1 ELSE 0

\* C30 as stated: the matrix B of createInvertedVdm(k) times the Vandermonde
\* matrix at the nodes 2^0, 2^1, ..., 2^(k-1) is the identity
C30_InverseAtPowers ==
    Applied("createInvertedVdm") =>
        ProductEntry(value, LAMBDA i : gf_pow(2, i), operands[2], operands[3], operands[4])
            = Identity(operands[3], operands[4])

\* C30, amended: the matrix B of createInvertedVdm(k) is the inverse of the
\* Vandermonde matrix V[i][j] = x_i^j at the nodes x_0 = 0 and x_i = 2^i for
\* 0 < i < k: B*V = I and V*B = I
C30_InverseAtNodes ==
    Applied("createInvertedVdm") =>
        LET k_ == operands[2]
            row == operands[3]
            col == operands[4]
            Node(i) == IF i = 0 THEN 0 ELSE gf_pow(2, i)
        IN /\ Len(value) = k_ * k_
           /\ ProductEntry(value, Node, k_, row, col) = Identity(row, col)
           /\ xor_all(MkVec(k_, LAMBDA i :
                 gf_mul(gf_pow(Node(row), i), At(value, i * k_ + col)))) = Identity(row, col)

\* the matrix for k = 3, and an entry off the diagonal of the product
C30_Witness ==
    /\ Applied("createInvertedVdm")
    /\ operands = <<"createInvertedVdm", 3, 1, 2>>
    /\ value = <<1, 0, 0, 201, 244, 61, 173, 61, 144>>

(***************************************************************************)
(* Threads: several calls of Encode, EncodeSingle and Rebuild run on one   *)
(* instance at once. A step is one statement that writes a buffer or calls *)
(* the output callback; the statements before the first such write of a    *)
(* call touch only the arguments and locals of the call and are one step.  *)
(***************************************************************************)
Threads == 1..MaxThreads

\* a thread that has not called yet: the arguments and locals of its call
idle ==
    [op |-> "", pc |-> "idle", err |-> "",
     in |-> <<>>, sh |-> <<>>, num |-> 0, obuf0 |-> <<>>, obuf |-> <<>>,
     size |-> 0, i |-> 0, j |-> 0, dm |-> <<>>, indexes |-> <<>>, begins |-> <<>>,
     out |-> <<>>]

InitThreads ==
    /\ Unbuilt
    /\ operands = <<>>
    /\ value = <<>>
    /\ thread = [t \in Threads |-> idle]
    /\ scratch = [t \in Threads |-> <<>>]
    /\ stray = -1

\* a faulty scratch buffer: one buffer for all the calls on the instance
fec_buf_shared(t) == 1

\* std::vector<uint8_t> fec_buf(block_size), buf(share_size): a local of the
\* call, so that the call of thread t has a buffer of its own
fec_buf(t) == t

\* the inputs the threads encode
ThreadInputs == UNION {[1..len -> InputBytes] : len \in 1..(k * MaxThreadBlock)}

\* the collections the threads rebuild from: k or more shares of an Encode,
\* the share with the largest number first
ThreadShares ==
    {MkVec(Cardinality(S), LAMBDA x :
        At(Encode(in).out, CHOOSE num \in S : Cardinality({m \in S : m > num}) = x)) :
       in \in {v \in ThreadInputs : Len(v) % k = 0},
       S \in {T \in SUBSET (0..(n - 1)) : Cardinality(T) >= k}}

\* the instance is shared and thread t has not called yet
Ready(t) == pc = "constructed" /\ n <= MaxThreadN /\ thread[t].pc = "idle"

\* the first index above i whose share has to be reconstructed, or -1
next_missing(indexes, i) ==
    LET later == {x \in (i + 1)..(Len(indexes) - 1) : At(indexes, x) >= k}
    IN IF later = {} THEN -1 ELSE Min(later)

\* Encode up to the first write of fec_buf: the check and the primary shares
BeginEncode(t) ==
    /\ Ready(t)
    /\ \E in \in ThreadInputs :
         thread' = [thread EXCEPT ![t] =
            IF Len(in) % k # 0
            THEN [idle EXCEPT !.op = "Encode", !.in = in, !.pc = "done",
                              !.err = "InvalidLength"]
            ELSE [idle EXCEPT !.op = "Encode", !.in = in,
                              !.size = Len(in) \div k,
                              !.begins = Blocks(in, Len(in) \div k),
                              !.out = MkVec(k, LAMBDA i : encode_share(in, Len(in) \div k, i)),
                              !.i = k,
                              !.pc = IF k < n THEN "fill" ELSE "done"]]
    /\ UNCHANGED <<k, n, enc_matrix, vand_matrix, input, emitted, shares, given, rebuilt,
                   arg, outbuf0, outbuf, returned, calls, result, pc, operands, value,
                   scratch, stray>>

\* EncodeSingle up to the first write of the output: the checks, and the copy
\* of a primary share
BeginEncodeSingle(t) ==
    /\ Ready(t)
    /\ \E num \in 0..(n - 1), in \in ThreadInputs :
         \E output \in Buffers(Len(in) \div k) :
           thread' = [thread EXCEPT ![t] =
              With(EncodeSingle(num, in, output), LAMBDA alone :
                IF alone.err # "" \/ num < k
                THEN [idle EXCEPT !.op = "EncodeSingle", !.in = in, !.num = num,
                                  !.obuf0 = output, !.obuf = alone.output,
                                  !.err = alone.err, !.pc = "done"]
                ELSE [idle EXCEPT !.op = "EncodeSingle", !.in = in, !.num = num,
                                  !.obuf0 = output, !.obuf = output,
                                  !.size = Len(in) \div k,
                                  !.begins = Blocks(in, Len(in) \div k),
                                  !.i = num,
                                  !.pc = "fill"])]
    /\ UNCHANGED <<k, n, enc_matrix, vand_matrix, input, emitted, shares, given, rebuilt,
                   arg, outbuf0, outbuf, returned, calls, result, pc, operands, value,
                   scratch, stray>>

\* Rebuild up to the first write of buf: the sorting, the first loop of
\* RebuildSorted with the primary shares handed out, and invertMatrix
BeginRebuild(t) ==
    /\ Ready(t)
    /\ \E sh \in ThreadShares :
         thread' = [thread EXCEPT ![t] =
            With(sorted_shares(sh), LAMBDA sorted :
              IF Len(sorted) < k
              THEN [idle EXCEPT !.op = "Rebuild", !.sh = sh, !.pc = "done",
                                !.err = "NotEnoughShares"]
              ELSE With(rebuild_select_loop(sorted,
                          [err |-> "", b |-> 0, e |-> 0, missing |-> FALSE, dm |-> <<>>,
                           indexes |-> <<>>, begins |-> <<>>, share_size |-> 0,
                           out |-> <<>>], 0), LAMBDA st :
                IF st.err # "" \/ ~st.missing
                THEN [idle EXCEPT !.op = "Rebuild", !.sh = sh, !.pc = "done",
                                  !.err = st.err, !.out = st.out]
                ELSE With(invertMatrix(st.dm, k), LAMBDA inv :
                       IF inv.err # ""
                       THEN [idle EXCEPT !.op = "Rebuild", !.sh = sh, !.pc = "done",
                                         !.err = inv.err, !.out = st.out]
                       ELSE [idle EXCEPT !.op = "Rebuild", !.sh = sh,
                                         !.size = st.share_size,
                                         !.dm = inv.matrix,
                                         !.indexes = st.indexes,
                                         !.begins = st.begins,
                                         !.out = st.out,
                                         !.i = next_missing(st.indexes, -1),
                                         !.pc = "fill"])))]
    /\ UNCHANGED <<k, n, enc_matrix, vand_matrix, input, emitted, shares, given, rebuilt,
                   arg, outbuf0, outbuf, returned, calls, result, pc, operands, value,
                   scratch, stray>>

\* std::fill(fec_buf.begin(), fec_buf.end(), 0), std::fill(buf...) and, in
\* EncodeSingle, std::fill(obegin, oend, 0)
Fill(t) ==
    /\ thread[t].pc = "fill"
    /\ IF thread[t].op = "EncodeSingle"
       THEN /\ thread' = [thread EXCEPT ![t].obuf = Zeros(Len(@)),
                                        ![t].j = 0, ![t].pc = "addmul"]
            /\ UNCHANGED scratch
       ELSE /\ scratch' = [scratch EXCEPT ![fec_buf(t)] = Zeros(thread[t].size)]
            /\ thread' = [thread EXCEPT ![t].j = 0, ![t].pc = "addmul"]
    /\ UNCHANGED <<k, n, enc_matrix, vand_matrix, input, emitted, shares, given, rebuilt,
                   arg, outbuf0, outbuf, returned, calls, result, pc, operands, value,
                   stray>>

\* one addmul of the inner loop: block j times the coefficient of row i, of
\* enc_matrix in Encode and EncodeSingle, of decoding_matrix in RebuildSorted
Addmul(t) ==
    /\ thread[t].pc = "addmul"
    /\ \E y \in {IF thread[t].op = "Rebuild"
                 THEN At(thread[t].dm, thread[t].i * k + thread[t].j)
                 ELSE At(enc_matrix, thread[t].i * k + thread[t].j)} :
         IF thread[t].op = "EncodeSingle"
         THEN /\ thread' = [thread EXCEPT
                   ![t].obuf = addmul(@, At(thread[t].begins, thread[t].j), y),
                   ![t].j = @ + 1,
                   ![t].pc = IF thread[t].j + 1 < k THEN "addmul" ELSE "done"]
              /\ UNCHANGED scratch
         ELSE /\ scratch' = [scratch EXCEPT ![fec_buf(t)] =
                   addmul(@, At(thread[t].begins, thread[t].j), y)]
              /\ thread' = [thread EXCEPT
                   ![t].j = @ + 1,
                   ![t].pc = IF thread[t].j + 1 < k THEN "addmul" ELSE "output"]
    /\ UNCHANGED <<k, n, enc_matrix, vand_matrix, input, emitted, shares, given, rebuilt,
                   arg, outbuf0, outbuf, returned, calls, result, pc, operands, value,
                   stray>>

\* output(i, ByteView(fec_buf.data(), block_size)): the callback gets what the
\* buffer holds now; then the next share, or the return
Output(t) ==
    /\ thread[t].pc = "output"
    /\ \E nxt \in {IF thread[t].op = "Rebuild" THEN next_missing(thread[t].indexes, thread[t].i)
                   ELSE IF thread[t].i + 1 < n THEN thread[t].i + 1 ELSE -1} :
         thread' = [thread EXCEPT
            ![t].out = Append(@, Share(thread[t].i, scratch[fec_buf(t)])),
            ![t].i = IF nxt < 0 THEN @ ELSE nxt,
            ![t].pc = IF nxt < 0 THEN "done" ELSE "fill"]
    /\ UNCHANGED <<k, n, enc_matrix, vand_matrix, input, emitted, shares, given, rebuilt,
                   arg, outbuf0, outbuf, returned, calls, result, pc, operands, value,
                   scratch, stray>>

NextThreads ==
    \/ Construct
    \/ \E t \in Threads : BeginEncode(t)
    \/ \E t \in Threads : BeginEncodeSingle(t)
    \/ \E t \in Threads : BeginRebuild(t)
    \/ \E t \in Threads : Fill(t)
    \/ \E t \in Threads : Addmul(t)
    \/ \E t \in Threads : Output(t)

SpecThreads == InitThreads /\ [][NextThreads]_vars

\* what the call of the thread th gives when it runs alone: the error, the
\* calls of the output callback and the output buffer
Alone(th) ==
    CASE th.op = "Encode" ->
           With(Encode(th.in), LAMBDA r : [err |-> r.err, out |-> r.out, obuf |-> <<>>])
      [] th.op = "EncodeSingle" ->
           With(EncodeSingle(th.num, th.in, th.obuf0), LAMBDA r :
             [err |-> r.err, out |-> <<>>, obuf |-> r.output])
      [] th.op = "Rebuild" ->
           With(Rebuild(th.sh), LAMBDA r : [err |-> r.err, out |-> r.out, obuf |-> <<>>])

\* C21: a call interleaved with other calls on the same instance raises the
\* error, makes the calls of the output callback and fills the output buffer
\* as it does alone; while it runs it has made the first of those calls
C21_Concurrent ==
    \A t \in DOMAIN thread :
        thread[t].op # "" =>
            \E alone \in {Alone(thread[t])} :
                /\ Len(thread[t].out) <= Len(alone.out)
                /\ thread[t].out = SubSeq(alone.out, 1, Len(thread[t].out))
                /\ thread[t].pc = "done" =>
                      /\ thread[t].err = alone.err
                      /\ thread[t].out = alone.out
                      /\ thread[t].obuf = alone.obuf

\* two calls in progress at once: an Encode has accumulated its parity share
\* and not yet handed it out, a Rebuild of other data is between two addmul
C21_Witness ==
    /\ k = 2
    /\ n = 3
    /\ thread[1].op = "Encode"
    /\ thread[1].in = <<0, 1>>
    /\ thread[1].pc = "output"
    /\ thread[2].op = "Rebuild"
    /\ thread[2].pc = "addmul"
    /\ thread[2].j = 1
    /\ scratch[1] # scratch[2]

====
